---- MODULE Spec2Model ----
(***************************************************************************)
(* Model of nova/accelerator/cyborg.py: the Cyborg client used by Nova to  *)
(* look up device profiles, create accelerator requests (ARQs), match them *)
(* with the request groups of the request spec, and bind them.             *)
(*                                                                         *)
(* An invocation of a public method of _CyborgClient is a small process:   *)
(* it runs up to its outbound HTTP request (or raises before it), is       *)
(* suspended while the request is in flight, and runs to its end when the  *)
(* outcome of the request arrives.                                         *)
(***************************************************************************)
EXTENDS Integers, Sequences, FiniteSets, TLC

(***************************************************************************)
(* Bounds of the model.                                                    *)
(***************************************************************************)
MaxGroups == 2      \* request groups passed to one resolve
MaxArqs == 2        \* ARQs in one response of the create call
MaxProviders == 2   \* provider UUIDs carried by one request group
MaxBindings == 2    \* ARQ ids in one bindings mapping
MaxFields == 2      \* fields in one binding
MaxProfiles == 2    \* device profiles in one response of the lookup
MaxGetClient == 3   \* calls of get_client in one process
MaxId == 11         \* largest integer group id the key derivation is applied to
MaxSpecs == 2       \* entries in the extra_specs of one flavor

(***************************************************************************)
(* Values.  Python's None is the value None below; it is no provider UUID  *)
(* and no device profile name.                                             *)
(***************************************************************************)
None == "<None>"

Invocations == {1, 2}

Providers == {"P1", "P2"}

\* device_profile_group_id as carried by an ARQ: an integer or a string
DpGroupIds ==
    {[t |-> "int", v |-> 7], [t |-> "int", v |-> 8], [t |-> "str", v |-> "7"]}

DpNames == {None, "", "dp1"}

\* device_rp_uuid as the service may have put it on a new ARQ
ServiceRpValues == {None, "P0"}

ArqUuids == {"arq-1", "arq-2"}
Fields == {"host_name", "instance_uuid"}
FieldValues == {"h1", "i1"}

\* device profile groups, opaque to the client
DpGroups == {"dpg-a", "dpg-b"}

SeqsUpTo(S, n) == UNION {[1..k -> S] : k \in 0..n}

(***************************************************************************)
(* Python str(): the decimal numeral of an integer, a string unchanged,    *)
(* "None" for None.                                                        *)
(***************************************************************************)
Digit(d) == CASE d = 0 -> "0" [] d = 1 -> "1" [] d = 2 -> "2" [] d = 3 -> "3"
              [] d = 4 -> "4" [] d = 5 -> "5" [] d = 6 -> "6" [] d = 7 -> "7"
              [] d = 8 -> "8" [] d = 9 -> "9"

\* as IntStr, but only the last digit is kept
IntStrLastDigit(n) == Digit(n % 10)

RECURSIVE IntStr(_)
IntStr(n) == IF n < 0 THEN "-" \o IntStr(0 - n)
             ELSE IF n < 10 THEN Digit(n)
             ELSE IntStr(n \div 10) \o Digit(n % 10)

str(x) == IF x.t = "int" THEN IntStr(x.v) ELSE x.v

NameStr(dp_name) == IF dp_name = None THEN "None" ELSE dp_name

(***************************************************************************)
(* get_device_profile_group_requester_id                                   *)
(***************************************************************************)
get_device_profile_group_requester_id(dp_group_id) ==
    "device_profile_" \o str(dp_group_id)

RequesterIds == {get_device_profile_group_requester_id(g) : g \in DpGroupIds}

\* group ids the key derivation is applied to: integers, the strings that
\* spell them, and a string that spells no integer
KeyIds ==
    {[t |-> "int", v |-> n] : n \in 0..MaxId}
        \cup {[t |-> "str", v |-> ToString(n)] : n \in 0..MaxId}
        \cup {[t |-> "str", v |-> "a"]}

(***************************************************************************)
(* Inputs: request groups of the request spec, ARQs as the service creates *)
(* them, bindings (a dict is a sequence of key/value pairs in insertion    *)
(* order, with distinct keys).                                             *)
(***************************************************************************)
\* provider_uuids of a request group: resource providers, each at most once
ProviderLists ==
    {l \in SeqsUpTo(Providers, MaxProviders) :
        \A j, k \in DOMAIN l : l[j] = l[k] => j = k}

RequestGroups ==
    [requester_id : RequesterIds, provider_uuids : ProviderLists]

ReqGroupLists == SeqsUpTo(RequestGroups, MaxGroups)

ArqList(f) ==
    [k \in DOMAIN f |->
        [uuid |-> "arq-" \o IntStr(k),
         device_profile_group_id |-> f[k][1],
         device_rp_uuid |-> f[k][2]]]

ArqLists == {ArqList(f) : f \in SeqsUpTo(DpGroupIds \X ServiceRpValues, MaxArqs)}

DistinctKeys(d) == \A j, k \in DOMAIN d : d[j].key = d[k].key => j = k

BindingDicts ==
    {d \in SeqsUpTo([key : Fields, value : FieldValues], MaxFields) :
        DistinctKeys(d)}

BindingsDicts ==
    {d \in SeqsUpTo([key : ArqUuids, value : BindingDicts], MaxBindings) :
        DistinctKeys(d)}

Profiles == [name : {"dp1"}, groups : SeqsUpTo(DpGroups, 1)]

ProfileLists == SeqsUpTo(Profiles, MaxProfiles)

(***************************************************************************)
(* Outcomes of an outbound request: the transport raises, or a response    *)
(* arrives that is falsy (no response, or a response with an error status) *)
(* or truthy with a JSON body.  body.has tells whether the body carries    *)
(* the expected entry, body.list is the entry.                             *)
(***************************************************************************)
TransportError == [type |-> "ConnectFailure", msg |-> "transport failure"]

NoBody == [has |-> FALSE, list |-> <<>>]

Outcome(kind, body) == [kind |-> kind, body |-> body]

Failures == {Outcome("raise", NoBody), Outcome("falsy", NoBody)}

PostOutcomes ==
    Failures \cup {Outcome("ok", NoBody)}
             \cup {Outcome("ok", [has |-> TRUE, list |-> l]) : l \in ArqLists}

GetOutcomes ==
    Failures \cup {Outcome("ok", NoBody)}
             \cup {Outcome("ok", [has |-> TRUE, list |-> l]) : l \in ProfileLists}

PatchOutcomes == Failures \cup {Outcome("ok", NoBody)}

NoOutcome == Outcome("none", NoBody)

(***************************************************************************)
(* Exceptions.  The client raises RuntimeError itself; a failed assert     *)
(* raises AssertionError; iterating None raises TypeError; an exception of *)
(* the transport propagates unchanged (no handler catches anything).       *)
(***************************************************************************)
NoExc == [type |-> "", msg |-> ""]

RuntimeError(msg) == [type |-> "RuntimeError", msg |-> msg]

AssertionError == [type |-> "AssertionError", msg |-> ""]

TypeError(msg) == [type |-> "TypeError", msg |-> msg]

DEVICE_PROFILE_URL == "/device_profiles"

ARQ_URL == "/accelerator_requests"

InvalidNameMsg(dp_name) == "Device profile name is invalid " \o NameStr(dp_name)

(***************************************************************************)
(* self._client.get / post / patch: one outbound request, appended to the  *)
(* requests the invocation has issued.                                     *)
(***************************************************************************)
RequestTwice(cs, method, url, payload) ==
    cs \o << [method |-> method, url |-> url, payload |-> payload],
             [method |-> method, url |-> url, payload |-> payload] >>

Request(cs, method, url, payload) ==
    Append(cs, [method |-> method, url |-> url, payload |-> payload])

LogEntry(level, msg, args) == [level |-> level, msg |-> msg, args |-> args]

(***************************************************************************)
(* get_device_profile_groups                                               *)
(***************************************************************************)
LookupNameInvalid(dp_name) == dp_name = None \/ dp_name = ""

\* as LookupEnd, but content with the first of several profiles
LookupEndFirstProfile(r) ==
    IF r.kind = "raise"
    THEN [exc |-> TransportError, result |-> <<>>, log |-> <<>>]
    ELSE IF r.kind = "falsy"
    THEN [exc |-> RuntimeError("Failed to get device profile from Cyborg"),
          result |-> <<>>, log |-> <<>>]
    ELSE IF ~r.body.has \/ Len(r.body.list) = 0
    THEN [exc |-> NoExc, result |-> <<>>,
          log |-> << LogEntry("error",
                       "Expected 1 device profile but got nothing", <<>>) >>]
    ELSE [exc |-> NoExc, result |-> r.body.list[1].groups, log |-> <<>>]

\* the part of the method after the GET: what the method does with r
LookupEnd(r) ==
    IF r.kind = "raise"
    THEN [exc |-> TransportError, result |-> <<>>, log |-> <<>>]
    ELSE IF r.kind = "falsy"
    THEN [exc |-> RuntimeError("Failed to get device profile from Cyborg"),
          result |-> <<>>, log |-> <<>>]
    ELSE LET dp_list == r.body IN
         IF ~dp_list.has
         THEN [exc |-> NoExc, result |-> <<>>,
               log |-> << LogEntry("error",
                            "Expected 1 device profile but got nothing", <<>>) >>]
         ELSE IF Len(dp_list.list) # 1
         THEN [exc |-> NoExc, result |-> <<>>,
               log |-> << LogEntry("error",
                            "Expected 1 device profile but got %d",
                            << Len(dp_list.list) >>) >>]
         ELSE [exc |-> NoExc, result |-> dp_list.list[1].groups, log |-> <<>>]

(***************************************************************************)
(* _create_arqs                                                            *)
(***************************************************************************)
CreateNameOnlyNone(dp_name) == dp_name = None

CreateNameInvalid(dp_name) == dp_name = None \/ dp_name = ""

\* the part of _create_arqs after the POST; arqs.has = FALSE is None
CreateArqsEnd(r) ==
    IF r.kind = "raise"
    THEN [exc |-> TransportError, arqs |-> NoBody]
    ELSE IF r.kind = "falsy"
    THEN [exc |-> RuntimeError("Failed to get Cyborg accelerator requests"),
          arqs |-> NoBody]
    ELSE [exc |-> NoExc, arqs |-> r.body]

(***************************************************************************)
(* create_arqs_and_match_resource_providers: the two loops                 *)
(***************************************************************************)
\* line 128: the ARQ's provider before the request groups are scanned
KeepServiceRp(arq) == arq.device_rp_uuid

InitialRp(arq) == None

\* line 132: the request group is the one of the ARQ's device profile group
MatchesAny(rg, dp_group_requester_id) == TRUE

\* as Matches, but on the "device_profile_" prefix of the key only
MatchesPrefixOnly(rg, dp_group_requester_id) ==
    SubSeq(rg.requester_id, 1, 15) = SubSeq(dp_group_requester_id, 1, 15)

Matches(rg, dp_group_requester_id) == rg.requester_id = dp_group_requester_id

\* line 133: assert len(rg.provider_uuids) == 1
AtLeastOneProvider(rg) == Len(rg.provider_uuids) >= 1

ProviderAssert(rg) == Len(rg.provider_uuids) = 1

\* line 135: assert arq['device_rp_uuid'] is not None
ResolvedAssert(arq) == arq.device_rp_uuid # None

\* the inner loop, lines 131-134, from the given provider of the ARQ over
\* the request groups left to scan
RECURSIVE ScanGroups(_, _, _)
ScanGroups(rp, dp_group_requester_id, rgs) ==
    IF rgs = <<>>
    THEN [raised |-> FALSE, rp |-> rp]
    ELSE LET rg == Head(rgs) IN
         IF Matches(rg, dp_group_requester_id)
         THEN IF ~ProviderAssert(rg)
              THEN [raised |-> TRUE, rp |-> rp]
              ELSE ScanGroups(rg.provider_uuids[1], dp_group_requester_id,
                              Tail(rgs))
         ELSE ScanGroups(rp, dp_group_requester_id, Tail(rgs))

\* as MatchArqs, but the ARQ's device_profile_group_id is overwritten with
\* its string
RECURSIVE MatchArqsNormalizing(_, _, _)
MatchArqsNormalizing(arqs, k, req_groups) ==
    IF k > Len(arqs)
    THEN [raised |-> FALSE, arqs |-> arqs]
    ELSE LET arq == arqs[k]
             dp_group_id == arq.device_profile_group_id
             dp_group_requester_id ==
                 get_device_profile_group_requester_id(dp_group_id)
             scan == ScanGroups(InitialRp(arq), dp_group_requester_id,
                                req_groups)
             arq2 == [arq EXCEPT !.device_rp_uuid = scan.rp,
                                 !.device_profile_group_id =
                                     [t |-> "str", v |-> str(dp_group_id)]]
             arqs2 == [arqs EXCEPT ![k] = arq2]
         IN IF scan.raised \/ ~ResolvedAssert(arq2)
            THEN [raised |-> TRUE, arqs |-> arqs2]
            ELSE MatchArqsNormalizing(arqs2, k + 1, req_groups)

\* the outer loop, lines 126-135, from the k-th ARQ on; arqs is the list as
\* mutated so far
RECURSIVE MatchArqs(_, _, _)
MatchArqs(arqs, k, req_groups) ==
    IF k > Len(arqs)
    THEN [raised |-> FALSE, arqs |-> arqs]
    ELSE LET arq == arqs[k]
             dp_group_id == arq.device_profile_group_id
             dp_group_requester_id ==
                 get_device_profile_group_requester_id(dp_group_id)
             scan == ScanGroups(InitialRp(arq), dp_group_requester_id,
                                req_groups)
             arq2 == [arq EXCEPT !.device_rp_uuid = scan.rp]
             arqs2 == [arqs EXCEPT ![k] = arq2]
         IN IF scan.raised \/ ~ResolvedAssert(arq2)
            THEN [raised |-> TRUE, arqs |-> arqs2]
            ELSE MatchArqs(arqs2, k + 1, req_groups)

\* what the caller gets when an exception leaves the method: nothing
PartialOnRaise(arqs) == arqs

NothingOnRaise(arqs) == <<>>

\* the part of the method after the POST: arqs is the local list when the
\* method ends, result is what the caller receives
ResolveEnd(r, req_groups) ==
    LET created == CreateArqsEnd(r) IN
    IF created.exc # NoExc
    THEN [exc |-> created.exc, arqs |-> <<>>, result |-> <<>>]
    ELSE IF ~created.arqs.has
    THEN [exc |-> TypeError("'NoneType' object is not iterable"),
          arqs |-> <<>>, result |-> <<>>]
    ELSE LET m == MatchArqs(created.arqs.list, 1, req_groups) IN
         IF m.raised
         THEN [exc |-> AssertionError, arqs |-> m.arqs,
               result |-> NothingOnRaise(m.arqs)]
         ELSE [exc |-> NoExc, arqs |-> m.arqs, result |-> m.arqs]

(***************************************************************************)
(* bind_arqs                                                               *)
(***************************************************************************)
\* lines 159-162: the JSON patch of one binding, in the order of its fields
ReplacePatchOf(binding) ==
    [k \in DOMAIN binding |->
        [path |-> "/" \o binding[k].key, op |-> "replace",
         value |-> binding[k].value]]

PatchOf(binding) ==
    [k \in DOMAIN binding |->
        [path |-> "/" \o binding[k].key, op |-> "add",
         value |-> binding[k].value]]

\* d[key] = value on a dict
DictSet(d, key, value) ==
    IF \E k \in DOMAIN d : d[k].key = key
    THEN [k \in DOMAIN d |->
             IF d[k].key = key THEN [key |-> key, value |-> value] ELSE d[k]]
    ELSE Append(d, [key |-> key, value |-> value])

\* lines 157-163: the loop over bindings.items()
RECURSIVE PatchList(_, _)
PatchList(patch_list, items) ==
    IF items = <<>>
    THEN patch_list
    ELSE PatchList(DictSet(patch_list, Head(items).key,
                           PatchOf(Head(items).value)),
                   Tail(items))

\* lines 167-168: the part of the method after the PATCH
IgnoreRejection(r) ==
    IF r.kind = "raise" THEN TransportError ELSE NoExc

BindEnd(r) ==
    IF r.kind = "raise"
    THEN TransportError
    ELSE IF r.kind = "falsy"
    THEN RuntimeError("Failed to bind Cyborg accelerator requests")
    ELSE NoExc

(***************************************************************************)
(* nova/pci/request.py, get_pci_requests_from_flavor: the branch for a     *)
(* flavor with extra_specs and no 'pci_passthrough:alias'.  Strings are    *)
(* handled character by character, as the regular expression, startswith   *)
(* and int() handle them.                                                  *)
(***************************************************************************)
XS_RES_PREFIX == "resources"

XS_TRAIT_PREFIX == "trait"

StartsWith(s, prefix) ==
    Len(s) >= Len(prefix) /\ SubSeq(s, 1, Len(prefix)) = prefix

Digits == {"0", "1", "2", "3", "4", "5", "6", "7", "8", "9"}

DigitVal(c) == CHOOSE d \in 0..9 : Digit(d) = c

\* the number of digits s starts with
RECURSIVE LeadingDigits(_)
LeadingDigits(s) ==
    IF s = "" \/ Head(s) \notin Digits THEN 0 ELSE 1 + LeadingDigits(Tail(s))

NoMatch == [matched |-> FALSE, k |-> "", group |-> None, v |-> ""]

\* XS_KEYPAT.match(res) and m.groups(): ^(resources|trait)([1-9][0-9]*)?:(.*)$
\* group is None when the key has no number
XS_KEYPAT_match(res) ==
    LET k == IF StartsWith(res, XS_RES_PREFIX) THEN XS_RES_PREFIX
             ELSE IF StartsWith(res, XS_TRAIT_PREFIX) THEN XS_TRAIT_PREFIX
             ELSE ""
        rest == SubSeq(res, Len(k) + 1, Len(res))
        n == IF rest # "" /\ Head(rest) \in Digits \ {"0"}
             THEN LeadingDigits(rest) ELSE 0
        after == SubSeq(rest, n + 1, Len(rest))
    IN IF k = "" \/ after = "" \/ Head(after) # ":"
       THEN NoMatch
       ELSE [matched |-> TRUE, k |-> k,
             group |-> IF n = 0 THEN None ELSE SubSeq(rest, 1, n),
             v |-> Tail(after)]

\* the value of a string of digits
RECURSIVE DigitsValue(_, _)
DigitsValue(acc, s) ==
    IF s = "" THEN acc ELSE DigitsValue(10 * acc + DigitVal(Head(s)), Tail(s))

\* int(amount) of a string without blanks: an optional sign and digits, or
\* ValueError
int(amount) ==
    LET signed == amount # "" /\ Head(amount) \in {"-", "+"}
        body == IF signed THEN Tail(amount) ELSE amount
    IN IF body = "" \/ LeadingDigits(body) # Len(body)
       THEN [ok |-> FALSE, val |-> 0]
       ELSE [ok |-> TRUE,
             val |-> IF signed /\ Head(amount) = "-"
                     THEN 0 - DigitsValue(0, body) ELSE DigitsValue(0, body)]

NameError(name) ==
    [type |-> "NameError", msg |-> "name '" \o name \o "' is not defined"]

ValueError(msg) == [type |-> "ValueError", msg |-> msg]

AttributeError(msg) == [type |-> "AttributeError", msg |-> msg]

\* fields.ResourceClass
CUSTOM_NAMESPACE == "CUSTOM_"

STANDARD == {"VCPU", "MEMORY_MB", "DISK_GB", "PCI_DEVICE", "SRIOV_NET_VF"}

\* placement_lib.RequestGroup(use_same_provider=...)
RequestGroup(use_same_provider) ==
    [use_same_provider |-> use_same_provider, resources |-> <<>>,
     required_traits |-> {}]

HasKey(d, key) == \E k \in DOMAIN d : d[k].key = key

DictGet(d, key) == d[CHOOSE k \in DOMAIN d : d[k].key = key].value

\* bool(ident): None and '' are false
bool(ident) == ident # None /\ ident # ""

\* _rg_by_id after get_request_group(ident)
get_request_group(rgs, ident) ==
    IF ~HasKey(rgs, ident)
    THEN DictSet(rgs, ident, RequestGroup(bool(ident)))
    ELSE rgs

\* _add_resource(groupid, rclass, amount) on _rg_by_id; LOG is not defined
\* in the module, so both warnings raise NameError
_add_resource(rgs, groupid, rclass, amount) ==
    IF ~(StartsWith(rclass, CUSTOM_NAMESPACE) \/ rclass \in STANDARD)
    THEN [exc |-> NameError("LOG"), rg_by_id |-> rgs]
    ELSE IF ~int(amount).ok \/ int(amount).val < 0
    THEN [exc |-> NameError("LOG"), rg_by_id |-> rgs]
    ELSE LET with == get_request_group(rgs, groupid)
             rg == DictGet(with, groupid)
         IN [exc |-> NoExc,
             rg_by_id |-> DictSet(with, groupid,
                 [rg EXCEPT !.resources = DictSet(@, rclass, int(amount).val)])]

\* _add_trait(groupid, trait_name, trait_type) on _rg_by_id
_add_trait(rgs, groupid, trait_name, trait_type) ==
    LET with == get_request_group(rgs, groupid)
        rg == DictGet(with, groupid)
    IN DictSet(with, groupid,
               [rg EXCEPT !.required_traits = @ \cup {trait_name}])

\* lines 281-283: entries of other classes and traits are passed over
Skipped(v) ==
    /\ ~StartsWith(v, "CUSTOM_FPGA_")
    /\ ~StartsWith(v, "CUSTOM_QAT_")
    /\ ~StartsWith(v, "CUSTOM_CYBORG_")

\* lines 276-289: the loop over extra_specs.items(), from _rg_by_id as built
\* so far.  Line 285 calls _add_resource on the name ret, which is defined
\* nowhere: evaluating it raises NameError and _add_resource is not reached.
RECURSIVE ExtractLoop(_, _)
ExtractLoop(rgs, items) ==
    IF items = <<>>
    THEN [exc |-> NoExc, rg_by_id |-> rgs]
    ELSE LET res == Head(items).key
             val == Head(items).value
             m == XS_KEYPAT_match(res)
         IN IF ~m.matched
            THEN ExtractLoop(rgs, Tail(items))
            ELSE IF Skipped(m.v)
            THEN ExtractLoop(rgs, Tail(items))
            ELSE IF m.k = XS_RES_PREFIX
            THEN [exc |-> NameError("ret"), rg_by_id |-> rgs]
            ELSE ExtractLoop(_add_trait(rgs, m.group, m.v, val), Tail(items))

\* line 312: "for k, v in _rg_by_id" unpacks a key of the dict, the group
\* identifier, into k and v; line 313 then reads v.required_traits
UnpackKey(ident) ==
    IF ident = None
    THEN TypeError("'NoneType' object is not iterable")
    ELSE IF Len(ident) = 2
    THEN AttributeError("'str' object has no attribute 'required_traits'")
    ELSE ValueError("wrong number of values to unpack")

(***************************************************************************)
(* get_client: return _CyborgClient(), a newly constructed object; objs is *)
(* the number of objects constructed before the call.                      *)
(***************************************************************************)
get_client(objs) == [constructed |-> objs + 1, returned |-> objs + 1]

(***************************************************************************)
(* State: per invocation, the method invoked (op), where it is (pc: idle,  *)
(* waiting for its outbound request, returned, raised), its arguments, the *)
(* outbound requests it has issued, the outcome r of its request, the      *)
(* local list arqs of resolve, what the caller received (result, exc) and  *)
(* what it logged.                                                         *)
(***************************************************************************)
VARIABLES op, pc, dp_name, req_groups, bindings, calls, r, arqs, result,
          exc, log

\* get_client: the _CyborgClient objects constructed so far (numbered from
\* 1) and the object each call of get_client returned, in call order
VARIABLES objects, got

\* get_device_profile_group_requester_id: the group ids it is applied to
\* and the keys it returned for them
VARIABLES key_in, key_out

\* get_pci_requests_from_flavor: the flavor's extra_specs, where the call is
\* (xpc: idle, returned, raised), the local dict _rg_by_id when the call
\* ends, the exception that left it, and the requests it returned
VARIABLES extra_specs, xpc, rg_by_id, xexc, pci_requests

invocationVars == << op, pc, dp_name, req_groups, bindings, calls, r, arqs,
                     result, exc, log >>

clientVars == << objects, got >>

keyVars == << key_in, key_out >>

extractVars == << extra_specs, xpc, rg_by_id, xexc, pci_requests >>

vars == << op, pc, dp_name, req_groups, bindings, calls, r, arqs, result,
           exc, log, objects, got, key_in, key_out, extra_specs, xpc,
           rg_by_id, xexc, pci_requests >>

\* no method of the client invoked yet
InvocationsIdle ==
    /\ op = [i \in Invocations |-> "none"]
    /\ pc = [i \in Invocations |-> "idle"]
    /\ dp_name = [i \in Invocations |-> None]
    /\ req_groups = [i \in Invocations |-> <<>>]
    /\ bindings = [i \in Invocations |-> <<>>]
    /\ calls = [i \in Invocations |-> <<>>]
    /\ r = [i \in Invocations |-> NoOutcome]
    /\ arqs = [i \in Invocations |-> <<>>]
    /\ result = [i \in Invocations |-> <<>>]
    /\ exc = [i \in Invocations |-> NoExc]
    /\ log = [i \in Invocations |-> <<>>]

\* get_client not called yet
NoClient == objects = 0 /\ got = <<>>

\* get_device_profile_group_requester_id not applied
NoKey == key_in = <<>> /\ key_out = <<>>

\* get_pci_requests_from_flavor not called
NoExtraction ==
    /\ extra_specs = <<>>
    /\ xpc = "idle"
    /\ rg_by_id = <<>>
    /\ xexc = NoExc
    /\ pci_requests = <<>>

Init == InvocationsIdle /\ NoClient /\ NoKey /\ NoExtraction

\* get_device_profile_groups(name), up to its GET
CallLookup(i, name) ==
    /\ pc[i] = "idle"
    /\ op' = [op EXCEPT ![i] = "get_device_profile_groups"]
    /\ dp_name' = [dp_name EXCEPT ![i] = name]
    /\ IF LookupNameInvalid(name)
       THEN /\ pc' = [pc EXCEPT ![i] = "raised"]
            /\ exc' = [exc EXCEPT ![i] = RuntimeError(InvalidNameMsg(name))]
            /\ calls' = calls
       ELSE /\ pc' = [pc EXCEPT ![i] = "waiting"]
            /\ exc' = exc
            /\ calls' = [calls EXCEPT ![i] =
                   Request(@, "GET", DEVICE_PROFILE_URL, [name |-> name])]
    /\ UNCHANGED << req_groups, bindings, r, arqs, result, log >>
    /\ UNCHANGED << clientVars, keyVars, extractVars >>

\* get_device_profile_groups, from the outcome of its GET to its end
ReturnLookup(i, outcome) ==
    /\ pc[i] = "waiting"
    /\ op[i] = "get_device_profile_groups"
    /\ LET end == LookupEnd(outcome) IN
       /\ r' = [r EXCEPT ![i] = outcome]
       /\ pc' = [pc EXCEPT ![i] = IF end.exc = NoExc THEN "returned" ELSE "raised"]
       /\ exc' = [exc EXCEPT ![i] = end.exc]
       /\ result' = [result EXCEPT ![i] = end.result]
       /\ log' = [log EXCEPT ![i] = @ \o end.log]
    /\ UNCHANGED << op, dp_name, req_groups, bindings, calls, arqs >>
    /\ UNCHANGED << clientVars, keyVars, extractVars >>

\* create_arqs_and_match_resource_providers(name, groups), up to the POST
\* of _create_arqs
CallResolve(i, name, groups) ==
    /\ pc[i] = "idle"
    /\ op' = [op EXCEPT ![i] = "create_arqs_and_match_resource_providers"]
    /\ dp_name' = [dp_name EXCEPT ![i] = name]
    /\ req_groups' = [req_groups EXCEPT ![i] = groups]
    /\ log' = [log EXCEPT ![i] = Append(@, LogEntry("info",
                  "DEMO: Creating ARQs for device profile %s", << name >>))]
    /\ IF CreateNameInvalid(name)
       THEN /\ pc' = [pc EXCEPT ![i] = "raised"]
            /\ exc' = [exc EXCEPT ![i] = RuntimeError(InvalidNameMsg(name))]
            /\ calls' = calls
       ELSE /\ pc' = [pc EXCEPT ![i] = "waiting"]
            /\ exc' = exc
            /\ calls' = [calls EXCEPT ![i] =
                   Request(@, "POST", ARQ_URL, [device_profile_name |-> name])]
    /\ UNCHANGED << bindings, r, arqs, result >>
    /\ UNCHANGED << clientVars, keyVars, extractVars >>

\* as ReturnResolve, but the list of ARQs is kept in one place shared by
\* all invocations
ReturnResolveShared(i, outcome) ==
    /\ pc[i] = "waiting"
    /\ op[i] = "create_arqs_and_match_resource_providers"
    /\ LET end == ResolveEnd(outcome, req_groups[i]) IN
       /\ r' = [r EXCEPT ![i] = outcome]
       /\ pc' = [pc EXCEPT ![i] = IF end.exc = NoExc THEN "returned" ELSE "raised"]
       /\ exc' = [exc EXCEPT ![i] = end.exc]
       /\ arqs' = [j \in Invocations |-> end.arqs]
       /\ result' = [j \in Invocations |->
                        IF j = i \/ pc[j] = "returned" THEN end.result
                        ELSE result[j]]
    /\ UNCHANGED << op, dp_name, req_groups, bindings, calls, log >>
    /\ UNCHANGED << clientVars, keyVars, extractVars >>

\* create_arqs_and_match_resource_providers, from the outcome of the POST
\* to its end
ReturnResolve(i, outcome) ==
    /\ pc[i] = "waiting"
    /\ op[i] = "create_arqs_and_match_resource_providers"
    /\ LET end == ResolveEnd(outcome, req_groups[i]) IN
       /\ r' = [r EXCEPT ![i] = outcome]
       /\ pc' = [pc EXCEPT ![i] = IF end.exc = NoExc THEN "returned" ELSE "raised"]
       /\ exc' = [exc EXCEPT ![i] = end.exc]
       /\ arqs' = [arqs EXCEPT ![i] = end.arqs]
       /\ result' = [result EXCEPT ![i] = end.result]
    /\ UNCHANGED << op, dp_name, req_groups, bindings, calls, log >>
    /\ UNCHANGED << clientVars, keyVars, extractVars >>

\* bind_arqs(b), up to its PATCH
CallBind(i, b) ==
    /\ pc[i] = "idle"
    /\ op' = [op EXCEPT ![i] = "bind_arqs"]
    /\ bindings' = [bindings EXCEPT ![i] = b]
    /\ log' = [log EXCEPT ![i] = Append(@, LogEntry("info",
                  "DEMO: Binding ARQs. bindings = %s", << b >>))]
    /\ pc' = [pc EXCEPT ![i] = "waiting"]
    /\ calls' = [calls EXCEPT ![i] =
           Request(@, "PATCH", ARQ_URL, PatchList(<<>>, b))]
    /\ UNCHANGED << dp_name, req_groups, r, arqs, result, exc >>
    /\ UNCHANGED << clientVars, keyVars, extractVars >>

\* bind_arqs, from the outcome of its PATCH to its end
ReturnBind(i, outcome) ==
    /\ pc[i] = "waiting"
    /\ op[i] = "bind_arqs"
    /\ LET e == BindEnd(outcome) IN
       /\ r' = [r EXCEPT ![i] = outcome]
       /\ pc' = [pc EXCEPT ![i] = IF e = NoExc THEN "returned" ELSE "raised"]
       /\ exc' = [exc EXCEPT ![i] = e]
    /\ UNCHANGED << op, dp_name, req_groups, bindings, calls, arqs, result,
                    log >>
    /\ UNCHANGED << clientVars, keyVars, extractVars >>

(***************************************************************************)
(* One caller: a single invocation of any of the three methods, with any   *)
(* arguments and any outcome of its request.                               *)
(***************************************************************************)
Callers == {1}

Next ==
    \/ \E i \in Callers :
           /\ pc[i] = "idle"
           /\ \E name \in DpNames : CallLookup(i, name)
    \/ \E i \in Callers :
           /\ pc[i] = "waiting" /\ op[i] = "get_device_profile_groups"
           /\ \E outcome \in GetOutcomes : ReturnLookup(i, outcome)
    \/ \E i \in Callers :
           /\ pc[i] = "idle"
           /\ \E name \in DpNames, groups \in ReqGroupLists :
                  CallResolve(i, name, groups)
    \/ \E i \in Callers :
           /\ pc[i] = "waiting"
           /\ op[i] = "create_arqs_and_match_resource_providers"
           /\ \E outcome \in PostOutcomes : ReturnResolve(i, outcome)
    \/ \E i \in Callers :
           /\ pc[i] = "idle"
           /\ \E b \in BindingsDicts : CallBind(i, b)
    \/ \E i \in Callers :
           /\ pc[i] = "waiting" /\ op[i] = "bind_arqs"
           /\ \E outcome \in PatchOutcomes : ReturnBind(i, outcome)

Spec == Init /\ [][Next]_vars

(***************************************************************************)
(* A process that calls get_client any number of times, and invokes the    *)
(* lookup or bind_arqs on a client.                                        *)
(***************************************************************************)
GetClient ==
    /\ Len(got) < MaxGetClient
    /\ objects' = get_client(objects).constructed
    /\ got' = Append(got, get_client(objects).returned)
    /\ UNCHANGED << invocationVars, keyVars, extractVars >>

NextClient ==
    \/ GetClient
    \/ \E i \in Callers :
           /\ pc[i] = "idle"
           /\ \E name \in DpNames : CallLookup(i, name)
    \/ \E i \in Callers :
           /\ pc[i] = "waiting" /\ op[i] = "get_device_profile_groups"
           /\ \E outcome \in GetOutcomes : ReturnLookup(i, outcome)
    \/ \E i \in Callers :
           /\ pc[i] = "idle"
           /\ \E b \in BindingsDicts : CallBind(i, b)
    \/ \E i \in Callers :
           /\ pc[i] = "waiting" /\ op[i] = "bind_arqs"
           /\ \E outcome \in PatchOutcomes : ReturnBind(i, outcome)

SpecClient == Init /\ [][NextClient]_vars

(***************************************************************************)
(* get_device_profile_group_requester_id applied to two group ids, each    *)
(* twice: the k-th call is on the first id for odd k, the second for even. *)
(***************************************************************************)
KeyCalls == 4

InitKey ==
    /\ InvocationsIdle /\ NoClient /\ NoExtraction
    /\ key_in \in KeyIds \X KeyIds
    /\ key_out = <<>>

RequesterId ==
    /\ Len(key_out) < KeyCalls
    /\ key_out' = Append(key_out,
           get_device_profile_group_requester_id(
               key_in[(Len(key_out) % 2) + 1]))
    /\ UNCHANGED << invocationVars, clientVars, extractVars, key_in >>

NextKey == RequesterId

SpecKey == InitKey /\ [][NextKey]_vars

(***************************************************************************)
(* get_pci_requests_from_flavor called on a flavor with the given          *)
(* extra_specs (a dict: key/value pairs, keys distinct).                   *)
(***************************************************************************)
ExtraSpecKeys ==
    {"resources1:CUSTOM_FOO", "trait1:CUSTOM_BAR",
     "resources1:CUSTOM_FPGA_INTEL_VF", "trait1:CUSTOM_CYBORG_FPGA",
     "trait:CUSTOM_CYBORG_INTEL", "trait12:CUSTOM_QAT_X", "hw:cpu_policy"}

ExtraSpecValues == {"2", "-1", "abc", "required"}

ExtraSpecsDicts ==
    {d \in SeqsUpTo([key : ExtraSpecKeys, value : ExtraSpecValues], MaxSpecs) :
        DistinctKeys(d)}

InitExtract ==
    /\ InvocationsIdle /\ NoClient /\ NoKey
    /\ extra_specs \in ExtraSpecsDicts
    /\ xpc = "idle"
    /\ rg_by_id = <<>>
    /\ xexc = NoExc
    /\ pci_requests = <<>>

\* the whole call: the loop over the extra_specs, then the loop over
\* _rg_by_id, which raises on the key it starts with (any key of the dict,
\* the order of a dict being arbitrary), then the return of the requests
GetPciRequestsFromFlavor ==
    /\ xpc = "idle"
    /\ LET loop == ExtractLoop(<<>>, extra_specs) IN
       /\ rg_by_id' = loop.rg_by_id
       /\ pci_requests' = <<>>
       /\ IF loop.exc # NoExc
          THEN xpc' = "raised" /\ xexc' = loop.exc
          ELSE IF loop.rg_by_id = <<>>
          THEN xpc' = "returned" /\ xexc' = NoExc
          ELSE /\ xpc' = "raised"
               /\ \E j \in DOMAIN loop.rg_by_id :
                      xexc' = UnpackKey(loop.rg_by_id[j].key)
    /\ UNCHANGED << invocationVars, clientVars, keyVars, extra_specs >>

NextExtract == GetPciRequestsFromFlavor

SpecExtract == InitExtract /\ [][NextExtract]_vars

(***************************************************************************)
(* Two placement attempts at once: each invokes resolve or bind_arqs on    *)
(* its own arguments, and the two invocations interleave at their          *)
(* outbound requests.                                                      *)
(***************************************************************************)
PairNames == {"", "dp1"}

PairGroupLists ==
    {<<>>,
     << [requester_id |-> "device_profile_7", provider_uuids |-> << "P1" >>] >>,
     << [requester_id |-> "device_profile_7", provider_uuids |-> << "P2" >>] >>}

PairPostOutcomes ==
    {Outcome("falsy", NoBody)}
        \cup {Outcome("ok", [has |-> TRUE, list |-> ArqList(f)]) :
                 f \in {<<>>,
                        << << [t |-> "int", v |-> 7], None >> >>,
                        << << [t |-> "int", v |-> 7], None >>,
                           << [t |-> "int", v |-> 8], None >> >>}}

PairBindings ==
    {<<>>,
     << [key |-> "arq-1", value |-> << [key |-> "host_name", value |-> "h1"] >>] >>,
     << [key |-> "arq-2", value |-> << [key |-> "host_name", value |-> "h1"],
                                       [key |-> "instance_uuid", value |-> "i1"] >>] >>}

PairPatchOutcomes == {Outcome("falsy", NoBody), Outcome("ok", NoBody)}

NextPair ==
    \/ \E i \in Invocations :
           /\ pc[i] = "idle"
           /\ \E name \in PairNames, groups \in PairGroupLists :
                  CallResolve(i, name, groups)
    \/ \E i \in Invocations :
           /\ pc[i] = "waiting"
           /\ op[i] = "create_arqs_and_match_resource_providers"
           /\ \E outcome \in PairPostOutcomes : ReturnResolve(i, outcome)
    \/ \E i \in Invocations :
           /\ pc[i] = "idle"
           /\ \E b \in PairBindings : CallBind(i, b)
    \/ \E i \in Invocations :
           /\ pc[i] = "waiting" /\ op[i] = "bind_arqs"
           /\ \E outcome \in PairPatchOutcomes : ReturnBind(i, outcome)

SpecPair == Init /\ [][NextPair]_vars

(***************************************************************************)
(* Properties.                                                             *)
(***************************************************************************)
IsResolve(i) == op[i] = "create_arqs_and_match_resource_providers"

IsLookup(i) == op[i] = "get_device_profile_groups"

IsBind(i) == op[i] = "bind_arqs"

Ended(i) == pc[i] \in {"returned", "raised"}

\* the create call of invocation i answered with a list of ARQs
GotArqs(i) == IsResolve(i) /\ r[i].kind = "ok" /\ r[i].body.has

CorrelationKey(arq) == "device_profile_" \o str(arq.device_profile_group_id)

\* the request groups of invocation i whose requester_id is the ARQ's key
MatchingGroups(i, arq) ==
    {j \in DOMAIN req_groups[i] :
        req_groups[i][j].requester_id = CorrelationKey(arq)}

(* C1: every ARQ that create_arqs_and_match_resource_providers returns has
   as device_rp_uuid the single provider UUID of a request group whose
   requester_id is "device_profile_" + the ARQ's device_profile_group_id;
   with the one group ("device_profile_7", [P1]) and one ARQ of group id 7,
   the ARQ is returned with device_rp_uuid = P1. *)
C1_ReturnedArqHasProviderOfItsGroup ==
    \A i \in Invocations :
        (IsResolve(i) /\ pc[i] = "returned") =>
            /\ \A k \in DOMAIN result[i] :
                  \E j \in MatchingGroups(i, result[i][k]) :
                      req_groups[i][j].provider_uuids
                          = << result[i][k].device_rp_uuid >>
            /\ ( /\ req_groups[i] = << [requester_id |-> "device_profile_7",
                                        provider_uuids |-> << "P1" >>] >>
                 /\ Len(r[i].body.list) = 1
                 /\ r[i].body.list[1].device_profile_group_id
                        = [t |-> "int", v |-> 7] )
               => /\ Len(result[i]) = 1
                  /\ result[i][1].device_rp_uuid = "P1"

C1_Witness ==
    \E i \in Invocations :
        /\ IsResolve(i) /\ pc[i] = "returned"
        /\ req_groups[i] = << [requester_id |-> "device_profile_7",
                               provider_uuids |-> << "P1" >>] >>
        /\ Len(result[i]) = 1
        /\ result[i][1].device_profile_group_id = [t |-> "int", v |-> 7]
        /\ result[i][1].device_rp_uuid = "P1"

(* C2: when an ARQ of the create call's response matches no request group,
   resolve fails; and resolve never returns an ARQ whose device_rp_uuid is
   None, whatever device_rp_uuid the service had put on the ARQ. *)
C2_UnmatchedArqFails ==
    \A i \in Invocations :
        /\ (GotArqs(i) /\ \E k \in DOMAIN r[i].body.list :
                              MatchingGroups(i, r[i].body.list[k]) = {})
               => /\ pc[i] = "raised"
                  /\ exc[i] = AssertionError
        /\ (IsResolve(i) /\ pc[i] = "returned")
               => \A k \in DOMAIN result[i] :
                      result[i][k].device_rp_uuid # None

C2_Witness ==
    \E i \in Invocations :
        /\ GotArqs(i) /\ pc[i] = "raised"
        /\ \E k \in DOMAIN r[i].body.list :
              /\ MatchingGroups(i, r[i].body.list[k]) = {}
              /\ r[i].body.list[k].device_rp_uuid # None
              /\ \A m \in 1..(k - 1) :
                    MatchingGroups(i, r[i].body.list[m]) # {}

(* C3: when two or more request groups carry the requester_id that matches
   an ARQ, resolve fails instead of assigning the provider of one of them. *)
C3_DuplicateMatchFails ==
    \A i \in Invocations :
        (GotArqs(i) /\ \E k \in DOMAIN r[i].body.list :
                           Cardinality(MatchingGroups(i, r[i].body.list[k])) >= 2)
            => pc[i] = "raised"

(* C4: when a request group matching an ARQ carries zero or more than one
   provider UUID, resolve fails with the failed assertion and the caller
   receives no ARQ, so none carrying a provider UUID of that group. *)
C4_BadProviderCountFails ==
    \A i \in Invocations :
        (GotArqs(i) /\ \E k \in DOMAIN r[i].body.list :
                           \E j \in MatchingGroups(i, r[i].body.list[k]) :
                               Len(req_groups[i][j].provider_uuids) # 1)
            => /\ pc[i] = "raised"
               /\ exc[i] = AssertionError
               /\ result[i] = <<>>

C4_Witness ==
    \E i \in Invocations :
        /\ GotArqs(i) /\ pc[i] = "raised"
        /\ \E j \in MatchingGroups(i, r[i].body.list[1]) :
              Len(req_groups[i][j].provider_uuids) > 1
        /\ \A j \in MatchingGroups(i, r[i].body.list[1]) :
              Len(req_groups[i][j].provider_uuids) >= 1

(* C5: resolve is all-or-nothing: when it returns, the result is the whole
   list of ARQs of the response, each with device_rp_uuid set; when it
   fails, the caller receives no ARQ, also when the failure comes at a later
   ARQ after earlier ARQs of the list were assigned their provider. *)
C5_AllOrNothing ==
    \A i \in Invocations :
        IsResolve(i) =>
            /\ pc[i] = "returned" =>
                  /\ Len(result[i]) = Len(r[i].body.list)
                  /\ \A k \in DOMAIN result[i] :
                        result[i][k].device_rp_uuid \in Providers
            /\ pc[i] # "returned" => result[i] = <<>>

C5_Witness ==
    \E i \in Invocations :
        /\ IsResolve(i) /\ pc[i] = "raised"
        /\ Len(arqs[i]) >= 2
        /\ arqs[i][1].device_rp_uuid \in Providers
        /\ arqs[i][2].device_rp_uuid = None

(* C6: with a device profile name that is None or empty, the device profile
   lookup and resolve raise the invalid-name error before any outbound
   request is issued: no GET and no POST is ever sent. *)
C6_InvalidNameFailsBeforeAnyRequest ==
    \A i \in Invocations :
        ((IsLookup(i) \/ IsResolve(i)) /\ dp_name[i] \in {None, ""})
            => /\ pc[i] = "raised"
               /\ exc[i] = RuntimeError(InvalidNameMsg(dp_name[i]))
               /\ calls[i] = <<>>
               /\ r[i] = NoOutcome

C6_Witness ==
    \E i \in Invocations :
        /\ IsResolve(i) /\ dp_name[i] = "" /\ pc[i] = "raised"
        /\ calls[i] = <<>>

(* C7: when the create call returns no data (a falsy response, or a body
   without 'arqs') or the transport fails, resolve ends in a failure whose
   kind differs from the kind of the invalid-name failure and from the kind
   of the failed-correlation failure. *)
C7_CreationFailureKindDistinct ==
    \A i \in Invocations :
        (IsResolve(i) /\ (r[i].kind \in {"raise", "falsy"}
                          \/ (r[i].kind = "ok" /\ ~r[i].body.has)))
            => /\ pc[i] = "raised"
               /\ exc[i].type # RuntimeError(InvalidNameMsg("")).type
               /\ exc[i].type # AssertionError.type

(* C8: the batch bind_arqs submits has the ARQ ids of the bindings as its
   keys, in the same order, and under each ARQ id one operation per field
   of its binding, in field order, each {op: "add", path: "/" + field,
   value: the field's value}; {"arq-1": {host_name: h1, instance_uuid: i1}}
   gives exactly the two add operations under "arq-1". *)
C8_BindSubmitsAddPatchPerField ==
    \A i \in Invocations :
        IsBind(i) =>
            /\ Len(calls[i]) = 1
            /\ calls[i][1].method = "PATCH"
            /\ LET batch == calls[i][1].payload IN
               /\ Len(batch) = Len(bindings[i])
               /\ \A k \in DOMAIN batch :
                     /\ batch[k].key = bindings[i][k].key
                     /\ Len(batch[k].value) = Len(bindings[i][k].value)
                     /\ \A f \in DOMAIN batch[k].value :
                           /\ batch[k].value[f].op = "add"
                           /\ batch[k].value[f].path
                                  = "/" \o bindings[i][k].value[f].key
                           /\ batch[k].value[f].value
                                  = bindings[i][k].value[f].value
               /\ bindings[i] = << [key |-> "arq-1", value |->
                                      << [key |-> "host_name", value |-> "h1"],
                                         [key |-> "instance_uuid", value |-> "i1"] >>] >>
                  => batch = << [key |-> "arq-1", value |->
                                  << [path |-> "/host_name", op |-> "add",
                                      value |-> "h1"],
                                     [path |-> "/instance_uuid", op |-> "add",
                                      value |-> "i1"] >>] >>

C8_Witness ==
    \E i \in Invocations :
        /\ IsBind(i) /\ Ended(i)
        /\ bindings[i] = << [key |-> "arq-1", value |->
                               << [key |-> "host_name", value |-> "h1"],
                                  [key |-> "instance_uuid", value |-> "i1"] >>] >>

(* C9: an invocation of a public method issues at most one outbound request
   and never retries: an invocation that got an outcome issued exactly one
   request, bind sent all its ARQ ids in that one request, and once the
   request is issued no further request follows, whatever its outcome. *)
C9_AtMostOneRequest ==
    /\ [](\A i \in Invocations :
             /\ Len(calls[i]) <= 1
             /\ r[i] # NoOutcome => Len(calls[i]) = 1
             /\ (IsBind(i) /\ pc[i] # "idle")
                    => /\ Len(calls[i]) = 1
                       /\ Len(calls[i][1].payload) = Len(bindings[i]))
    /\ [][\A i \in Invocations : pc[i] # "idle" => calls'[i] = calls[i]]_vars

C9_Witness ==
    \E i \in Invocations :
        /\ IsResolve(i) /\ pc[i] = "returned"
        /\ Len(result[i]) >= 2
        /\ Len(calls[i]) = 1

(* C10: when the submission of bind_arqs is rejected (falsy response), the
   caller gets the bind failure; when it is accepted, bind_arqs returns
   nothing; in both cases the PATCH is the only request of the invocation:
   no polling and no rollback or deletion request. *)
C10_BindReportsRejection ==
    \A i \in Invocations :
        (IsBind(i) /\ Ended(i)) =>
            /\ r[i].kind = "falsy" =>
                  /\ pc[i] = "raised"
                  /\ exc[i] = RuntimeError(
                         "Failed to bind Cyborg accelerator requests")
            /\ r[i].kind = "ok" =>
                  /\ pc[i] = "returned"
                  /\ exc[i] = NoExc
            /\ result[i] = <<>>
            /\ Len(calls[i]) = 1
            /\ calls[i][1].method = "PATCH"
            /\ calls[i][1].url = ARQ_URL

C10_Witness ==
    \E i \in Invocations :
        /\ IsBind(i) /\ pc[i] = "raised"
        /\ r[i].kind = "falsy"
        /\ bindings[i] # <<>>

(* C11: the device profile lookup returns the groups of a profile only when
   the response carries exactly one profile; with no profile list, no
   profile, or two or more profiles it returns an empty list and logs an
   error, never the groups of one of the profiles. *)
C11_LookupNeedsExactlyOneProfile ==
    \A i \in Invocations :
        (IsLookup(i) /\ r[i].kind = "ok") =>
            /\ pc[i] = "returned"
            /\ IF r[i].body.has /\ Len(r[i].body.list) = 1
               THEN /\ result[i] = r[i].body.list[1].groups
                    /\ log[i] = <<>>
               ELSE /\ result[i] = <<>>
                    /\ Len(log[i]) = 1
                    /\ log[i][1].level = "error"

C11_Witness ==
    \E i \in Invocations :
        /\ IsLookup(i) /\ pc[i] = "returned"
        /\ Len(r[i].body.list) = 2
        /\ r[i].body.list[1].groups # <<>>
        /\ result[i] = <<>>
        /\ Len(log[i]) = 1

(* C12: get_client is a singleton: every call returns the object the first
   call returned, and no second client is constructed. *)
C12_GetClientSingleton ==
    /\ objects <= 1
    /\ \A k \in DOMAIN got : got[k] = got[1]

(* C13 as stated: the key derivation always yields the same key for the
   same group id, and distinct keys for any two distinct group ids, an
   integer id and a string id included. *)
C13_KeysInjective ==
    /\ Len(key_out) >= 2 =>
          (key_in[1] # key_in[2] => key_out[1] # key_out[2])
    /\ \A k \in DOMAIN key_out : k > 2 => key_out[k] = key_out[k - 2]

(* C13 as amended: the key derivation always yields the same key for the
   same group id; two distinct group ids of the same type (two integers or
   two strings) yield distinct keys; an integer id and a string id yield the
   same key exactly when the string spells the integer's decimal numeral,
   as 7 and "7", which both yield "device_profile_7". *)
C13_KeysInjectivePerType ==
    /\ Len(key_out) >= 2 =>
          /\ (key_in[1].t = key_in[2].t /\ key_in[1] # key_in[2])
                 => key_out[1] # key_out[2]
          /\ \A a, b \in {1, 2} :
                 (key_in[a].t = "int" /\ key_in[b].t = "str")
                     => (key_out[a] = key_out[b]
                            <=> key_in[b].v = ToString(key_in[a].v))
          /\ key_in = << [t |-> "int", v |-> 7], [t |-> "str", v |-> "7"] >>
                 => /\ key_out[1] = "device_profile_7"
                    /\ key_out[2] = "device_profile_7"
    /\ \A k \in DOMAIN key_out : k > 2 => key_out[k] = key_out[k - 2]

C13_Witness ==
    /\ key_in = << [t |-> "int", v |-> 1], [t |-> "int", v |-> 11] >>
    /\ Len(key_out) = KeyCalls
    /\ key_out[1] = "device_profile_1"
    /\ key_out[2] = "device_profile_11"

\* the entries of the flavor's extra_specs, as the extractor is to read them
IsTraitEntry(e) ==
    XS_KEYPAT_match(e.key).matched /\ XS_KEYPAT_match(e.key).k = XS_TRAIT_PREFIX

IsResourceEntry(e) ==
    XS_KEYPAT_match(e.key).matched /\ XS_KEYPAT_match(e.key).k = XS_RES_PREFIX

IsValidResourceEntry(e) ==
    /\ IsResourceEntry(e)
    /\ \/ StartsWith(XS_KEYPAT_match(e.key).v, CUSTOM_NAMESPACE)
       \/ XS_KEYPAT_match(e.key).v \in STANDARD
    /\ int(e.value).ok /\ int(e.value).val >= 0

\* the entry is in the request group of its number
IsExtracted(e) ==
    LET m == XS_KEYPAT_match(e.key) IN
    /\ HasKey(rg_by_id, m.group)
    /\ IF m.k = XS_TRAIT_PREFIX
       THEN m.v \in DictGet(rg_by_id, m.group).required_traits
       ELSE /\ HasKey(DictGet(rg_by_id, m.group).resources, m.v)
            /\ DictGet(DictGet(rg_by_id, m.group).resources, m.v)
                   = int(e.value).val

Entries == {extra_specs[k] : k \in DOMAIN extra_specs}

(* C14: the extractor puts the resources[N]:<class> and trait[N]:<name>
   entries of one number N into one request group, each class with its
   integer amount and each trait in the required traits;
   {resources1:CUSTOM_FOO = 2, trait1:CUSTOM_BAR = required} gives exactly
   the group "1" with resources {CUSTOM_FOO: 2} and required traits
   {CUSTOM_BAR}. *)
C14_SameNumberSameGroup ==
    xpc # "idle" =>
        /\ \A e \in Entries :
              (IsTraitEntry(e) \/ IsValidResourceEntry(e)) => IsExtracted(e)
        /\ extra_specs = << [key |-> "resources1:CUSTOM_FOO", value |-> "2"],
                            [key |-> "trait1:CUSTOM_BAR", value |-> "required"] >>
           => rg_by_id = << [key |-> "1", value |->
                  [use_same_provider |-> TRUE,
                   resources |-> << [key |-> "CUSTOM_FOO", value |-> 2] >>,
                   required_traits |-> {"CUSTOM_BAR"}]] >>

(* C15: a resources entry with a negative or non-integer amount, or with a
   class that is neither standard nor custom, is dropped without raising:
   the extraction returns, the entry is in no group's resources, and every
   valid entry of the same extra_specs is in its group. *)
C15_InvalidResourceDropped ==
    (xpc # "idle"
     /\ \E e \in Entries : IsResourceEntry(e) /\ ~IsValidResourceEntry(e))
        => /\ xpc = "returned"
           /\ \A e \in Entries :
                 (IsResourceEntry(e) /\ ~IsValidResourceEntry(e))
                     => \A k \in DOMAIN rg_by_id :
                            ~HasKey(rg_by_id[k].value.resources,
                                    XS_KEYPAT_match(e.key).v)
           /\ \A e \in Entries :
                 (IsTraitEntry(e) \/ IsValidResourceEntry(e)) => IsExtracted(e)

(* C16: two resolve or bind_arqs invocations that interleave at their
   outbound requests do not interfere: a step of one invocation changes
   nothing of the other, and what each invocation returns, raises and
   submits is what it produces alone from its own arguments and the outcome
   of its own request. *)
C16_InvocationsDoNotInterfere ==
    /\ [](\A i \in Invocations :
             /\ (IsResolve(i) /\ r[i] # NoOutcome) =>
                    /\ result[i] = ResolveEnd(r[i], req_groups[i]).result
                    /\ exc[i] = ResolveEnd(r[i], req_groups[i]).exc
             /\ (IsBind(i) /\ pc[i] # "idle") =>
                    /\ calls[i] = << [method |-> "PATCH", url |-> ARQ_URL,
                                      payload |-> PatchList(<<>>, bindings[i])] >>
                    /\ result[i] = <<>>)
    /\ [][\A j \in Invocations :
             pc'[j] = pc[j] =>
                 /\ op'[j] = op[j] /\ dp_name'[j] = dp_name[j]
                 /\ req_groups'[j] = req_groups[j]
                 /\ bindings'[j] = bindings[j]
                 /\ calls'[j] = calls[j] /\ r'[j] = r[j]
                 /\ arqs'[j] = arqs[j] /\ result'[j] = result[j]
                 /\ exc'[j] = exc[j] /\ log'[j] = log[j]]_vars

C16_Witness ==
    /\ IsResolve(1) /\ pc[1] = "returned"
    /\ IsResolve(2) /\ pc[2] = "returned"
    /\ Len(result[1]) = 1 /\ result[1][1].device_rp_uuid = "P1"
    /\ Len(result[2]) = 1 /\ result[2][1].device_rp_uuid = "P2"

(* C17: resolve changes nothing but the device_rp_uuid of the ARQs: the
   returned list has the ARQs of the response in the same number and order,
   each with its uuid and device_profile_group_id; the request groups passed
   in stay as they were, and so does the bindings mapping of bind_arqs. *)
C17_ResolveChangesOnlyRp ==
    /\ [](\A i \in Invocations :
             (IsResolve(i) /\ pc[i] = "returned") =>
                 /\ Len(result[i]) = Len(r[i].body.list)
                 /\ \A k \in DOMAIN result[i] :
                       /\ result[i][k].uuid = r[i].body.list[k].uuid
                       /\ result[i][k].device_profile_group_id
                              = r[i].body.list[k].device_profile_group_id)
    /\ [][\A i \in Invocations :
             pc[i] # "idle" =>
                 /\ req_groups'[i] = req_groups[i]
                 /\ bindings'[i] = bindings[i]]_vars

C17_Witness ==
    \E i \in Invocations :
        /\ IsResolve(i) /\ pc[i] = "returned"
        /\ Len(result[i]) = 2
        /\ result[i][1].device_profile_group_id = [t |-> "int", v |-> 7]
        /\ r[i].body.list[1].device_rp_uuid = "P0"
        /\ result[i][1].device_rp_uuid \in Providers

(* C18: in a successful resolve two returned ARQs with the same
   device_profile_group_id have the same device_rp_uuid; and resolve
   succeeds whenever every ARQ has a matching request group and every
   matching group has one provider, however many request groups there are
   and whatever the groups matched by no ARQ carry. *)
C18_SameGroupSameProvider ==
    \A i \in Invocations :
        /\ (IsResolve(i) /\ pc[i] = "returned") =>
               \A k, m \in DOMAIN result[i] :
                   result[i][k].device_profile_group_id
                       = result[i][m].device_profile_group_id
                   => result[i][k].device_rp_uuid = result[i][m].device_rp_uuid
        /\ (GotArqs(i) /\ \A k \in DOMAIN r[i].body.list :
                /\ MatchingGroups(i, r[i].body.list[k]) # {}
                /\ \A j \in MatchingGroups(i, r[i].body.list[k]) :
                       Len(req_groups[i][j].provider_uuids) = 1)
               => pc[i] = "returned"

C18_Witness ==
    \E i \in Invocations :
        /\ IsResolve(i) /\ pc[i] = "returned"
        /\ Len(result[i]) = 2
        /\ result[i][1].device_profile_group_id
               = result[i][2].device_profile_group_id
        /\ \E j \in DOMAIN req_groups[i] :
              /\ Len(req_groups[i][j].provider_uuids) # 1
              /\ \A k \in DOMAIN result[i] :
                    j \notin MatchingGroups(i, result[i][k])

====
